---- MODULE Spec2Model ----
(***************************************************************************)
(* A model of the place-discovery backend: the recommendation client       *)
(* (YelpService: TTL cache, retry with backoff, error normalisation) and   *)
(* the context assembler (ContextService.getCurrentContext), the HTTP      *)
(* route layer (limiters, requireAuth, routers, errorHandler) and the      *)
(* context extractor (ContextService.extractContextFromConversation), the  *)
(* SavedPlace and Session collections with their indexes, and the home     *)
(* page of the frontend (HomePage, Map, MapContainer).                     *)
(***************************************************************************)
EXTENDS Integers, Sequences, FiniteSets, TLC

VARIABLES
  now,        \* Date.now(), in milliseconds
  ticks,      \* how many times the clock has advanced
  cache,      \* YelpService.cache: a map from cache key to CacheEntry
  call,       \* the invocations of the client's operations, in start order
  nStarted,   \* how many invocations have started
  net,        \* per invocation: the last response the remote service gave
  ctx,        \* one getCurrentContext invocation of the context assembler
  http,       \* the Express app: its clock, limiter stores and current request
  extraction, \* one extractContextFromConversation invocation
  db,         \* the database: the SavedPlace and Session collections
  page        \* the home page: HomePage's and Map's state, MapContainer's effect

yelpVars == <<now, ticks, cache, call, nStarted, net>>
ctxVars == <<ctx>>
httpVars == <<http>>
extractVars == <<extraction>>
vars == <<now, ticks, cache, call, nStarted, net, ctx, http, extraction, db, page>>

(***************************************************************************)
(* Bounds of the model.                                                    *)
(***************************************************************************)
MaxCalls == 2
MaxTicks == 2
MaxRequests == 2
MaxBurst == 11
MaxTurns == 2
MaxSaves == 4
MaxSessions == 2
MaxSends == 2
MaxInstances == 4

Calls == 1..MaxCalls

(***************************************************************************)
(* YelpService: constants and inputs.                                      *)
(***************************************************************************)
CACHE_TTL == 5 * 60 * 1000

\* One attempt fewer than the operations ask for.
MaxRetries_OneFewer == 3 - 1

\* The maxRetries every operation hands to retryRequest.
MaxRetries == 3

\* The clock advances by a second or by a whole TTL.
TickSteps == {1000, CACHE_TTL}

Undefined == "undefined"

Messages == {"pizza", "sushi"}
Histories == {"[]", "[{user:hi}]"}
Contexts == {Undefined, "{groupSize:2}"}
PlaceIds == {"p1"}
Queries == {"tacos"}

\* An invocation's operation and its parameters, by name, each value in its
\* JSON text.
ChatArgs(m, h, c) ==
  [op |-> "chat",
   params |-> << <<"message", m>>, <<"conversationHistory", h>>, <<"context", c>> >>]

PlaceArgs(p) == [op |-> "place", params |-> << <<"placeId", p>> >>]

SearchArgs(q) ==
  [op |-> "search",
   params |-> << <<"query", q>>, <<"location", "{lat:1,lng:2}">>, <<"filters", Undefined>> >>]

\* The calls the model makes: one chat call, the same call with each one of
\* its parameters changed, a place lookup and a search.
BaseChat == ChatArgs("pizza", "[]", Undefined)

Differs(a, b) == Cardinality({i \in 1..Len(a.params) : a.params[i] # b.params[i]})

Invocations ==
  {a \in {ChatArgs(m, h, c) : m \in Messages, h \in Histories, c \in Contexts} :
     Differs(a, BaseChat) <= 1}
    \cup {PlaceArgs(p) : p \in PlaceIds}
    \cup {SearchArgs(q) : q \in Queries}

NoArgs == [op |-> "none", params |-> << >>]

Param(args, name) ==
  LET i == CHOOSE j \in 1..Len(args.params) : args.params[j][1] = name
  IN args.params[i][2]

(***************************************************************************)
(* What the remote service can answer to one request.                      *)
(***************************************************************************)
\* The remote service answers the request it was sent: an answer names the
\* invocation whose request it answers and carries one of two bodies.
Datas == {"r1", "r2"}

NoResult == [for |-> NoArgs, body |-> "", recommendations |-> <<>>]

\* The recommendations a chat answer carries, each with its place_id and its
\* relevance_score (in hundredths): in one body the scores descend, in the
\* other they do not.
RecommendationsIn(d) ==
  IF d = "r1"
    THEN <<[place_id |-> "a", relevance_score |-> 95], [place_id |-> "b", relevance_score |-> 88]>>
    ELSE <<[place_id |-> "b", relevance_score |-> 50], [place_id |-> "a", relevance_score |-> 90]>>

\* parseRecommendations: recommendations.map(rec => ({ placeId, ...,
\* relevanceScore })), in the order of the answer.
parseRecommendations(recommendations) ==
  [i \in 1..Len(recommendations) |->
     [placeId |-> recommendations[i].place_id,
      relevanceScore |-> recommendations[i].relevance_score]]

\* The normalised result an operation builds from the remote answer d to its
\* request (message, context and conversation history for a chat call).
Normalise(args, d) ==
  [for |-> args, body |-> d,
   recommendations |-> IF args.op = "chat" THEN parseRecommendations(RecommendationsIn(d))
                       ELSE <<>>]

NoStatus == 0

\* An error as axios rejects with it: isAxios, response status (NoStatus when
\* there is no response), whether the body carries data.error, its
\* description ("" when it has none), and the error's own message.
Err(ax, st, he, d, m) ==
  [ok |-> FALSE, data |-> "", isAxios |-> ax, status |-> st, hasError |-> he,
   description |-> d, message |-> m]

Ok(d) ==
  [ok |-> TRUE, data |-> d, isAxios |-> FALSE, status |-> 200, hasError |-> FALSE,
   description |-> "", message |-> ""]

Timeout == Err(TRUE, NoStatus, FALSE, "", "timeout of 10000ms exceeded")
NetworkError == Err(TRUE, NoStatus, FALSE, "", "Network Error")
PlainError == Err(FALSE, NoStatus, FALSE, "", "socket hang up")
Http(st) == Err(TRUE, st, FALSE, "", "Request failed with status code")
HttpDesc(st) ==
  Err(TRUE, st, TRUE, "NOT_FOUND: no such business", "Request failed with status code")
HttpNoDesc(st) == Err(TRUE, st, TRUE, "", "Request failed with status code")

ClientErrors == {Http(401), Http(404), Http(429), HttpDesc(404), HttpNoDesc(404), HttpDesc(401)}
ServerErrors == {Http(503), HttpDesc(500)}
NoResponseErrors == {Timeout, NetworkError, PlainError}
Errors == ClientErrors \cup ServerErrors \cup NoResponseErrors
Successes == {Ok(d) : d \in Datas}
Outcomes == Successes \cup Errors

\* The outcomes of the concurrent specification: a success, a client error
\* and a server error.
CoreOutcomes == Successes \cup {Http(404), Http(503)}

NoError == Err(FALSE, NoStatus, FALSE, "", "")

(***************************************************************************)
(* YelpService: pure helpers.                                              *)
(***************************************************************************)
\* JSON.stringify of an object literal: a property whose value is undefined
\* is left out, the others keep their order.
JSONstringify(params) == SelectSeq(params, LAMBDA kv : kv[2] # Undefined)

\* `${type}:${JSON.stringify(params)}`
generateCacheKey(type, params) == <<type, JSONstringify(params)>>

\* The key each operation asks for: sendChatMessage passes {message, context},
\* getPlaceDetails {placeId}, searchPlaces {query, location, filters}.
ChatKeyParams(args) ==
  << <<"message", Param(args, "message")>>, <<"context", Param(args, "context")>> >>

KeyParams(args) ==
  IF args.op = "chat" THEN ChatKeyParams(args) ELSE args.params

CacheKeyOf(args) == generateCacheKey(args.op, KeyParams(args))

\* The text each operation hands to handleError.
ErrorContext(args) ==
  CASE args.op = "chat" -> "Failed to send chat message"
    [] args.op = "place" -> "Failed to get place details for " \o Param(args, "placeId")
    [] OTHER -> "Failed to search places"

\* Map operations on the cache.
EmptyMap == [k \in {} |-> [data |-> NoResult, timestamp |-> 0]]
MapSet(m, k, v) == [x \in DOMAIN m \cup {k} |-> IF x = k THEN v ELSE m[x]]
MapDelete(m, k) == [x \in DOMAIN m \ {k} |-> m[x]]

\* A getFromCache that expires an entry as soon as its age reaches the TTL.
Expired_AtTTL(entry, t) == t - entry.timestamp >= CACHE_TTL

\* A getFromCache that never expires an entry.
Expired_Never(entry, t) == FALSE

\* getFromCache: an entry is expired when its age is above the TTL.
Expired(entry, t) == t - entry.timestamp > CACHE_TTL

CacheHit(m, k, t) == k \in DOMAIN m /\ ~Expired(m[k], t)

\* The cache after getFromCache(k): an expired entry is deleted by the read.
CacheAfterGet(m, k, t) ==
  IF k \in DOMAIN m /\ Expired(m[k], t) THEN MapDelete(m, k) ELSE m

\* A setCache that stores nothing.
setCache_Dropped(m, k, data, t) == m

\* setCache
setCache(m, k, data, t) == MapSet(m, k, [data |-> data, timestamp |-> t])

\* A test that spares only a 404 from the retry.
NoRetry_OnlyNotFound(e) == e.isAxios /\ e.status = 404

\* retryRequest's test for "do not retry": an axios error with a response
\* status (truthy) below 500.
NoRetry(e) == e.isAxios /\ e.status # NoStatus /\ e.status < 500

\* Math.pow(2, attempt)
RECURSIVE Pow2(_)
Pow2(n) == IF n = 0 THEN 1 ELSE 2 * Pow2(n - 1)

\* A backoff that starts at two seconds.
BackoffDelay_FromTwo(attempt) == Pow2(attempt + 1) * 1000

\* Math.pow(2, attempt) * 1000
BackoffDelay(attempt) == Pow2(attempt) * 1000

\* A handleError that looks at the body before the status.
handleError_BodyFirst(e, message) ==
  IF e.isAxios /\ e.hasError
    THEN "Yelp API error: " \o (IF e.description # "" THEN e.description ELSE message)
  ELSE IF e.isAxios /\ e.status = 401 THEN "Yelp API authentication failed"
  ELSE IF e.isAxios /\ e.status = 429 THEN "Yelp API rate limit exceeded"
  ELSE IF e.isAxios /\ e.status # NoStatus /\ e.status >= 500
    THEN "Yelp API server error: " \o message
  ELSE message

\* A handleError that hands on the original error's message.
handleError_Original(e, message) ==
  IF e.isAxios /\ e.status = 401 THEN "Yelp API authentication failed"
  ELSE IF e.isAxios /\ e.status = 429 THEN "Yelp API rate limit exceeded"
  ELSE IF e.isAxios /\ e.status # NoStatus /\ e.status >= 500
    THEN "Yelp API server error: " \o message
  ELSE IF e.isAxios /\ e.hasError
    THEN "Yelp API error: " \o (IF e.description # "" THEN e.description ELSE message)
  ELSE e.message

\* handleError: the message of the Error handed to the caller.
handleError(e, message) ==
  IF e.isAxios /\ e.status = 401 THEN "Yelp API authentication failed"
  ELSE IF e.isAxios /\ e.status = 429 THEN "Yelp API rate limit exceeded"
  ELSE IF e.isAxios /\ e.status # NoStatus /\ e.status >= 500
    THEN "Yelp API server error: " \o message
  ELSE IF e.isAxios /\ e.hasError
    THEN "Yelp API error: " \o (IF e.description # "" THEN e.description ELSE message)
  ELSE message

(***************************************************************************)
(* YelpService: the state of one invocation.                               *)
(*   pc        idle | request (a request is in flight) | sleep (backing    *)
(*             off) | returned | threw                                     *)
(*   attempt   retryRequest's loop counter                                 *)
(*   lastError retryRequest's lastError                                    *)
(*   requests  outbound requests issued so far (calls of requestFn)        *)
(*   sleeps    the delays handed to sleep(), in order                      *)
(*   wakeAt    when the current sleep() ends; sentAt: when the latest      *)
(*             request was issued                                          *)
(*   hit       answered from the cache                                     *)
(*   result    the value returned; thrown: the message of the Error thrown *)
(*   startedAt, doneAt: the clock when the invocation started and ended    *)
(*   prior     the invocations that had returned, and whose cache entry no *)
(*             clearCache() had dropped since, when this one started       *)
(*   wiped     clearCache() has run since this invocation returned         *)
(*   cleared   clearCache() has run while this invocation was in flight    *)
(***************************************************************************)
IdleCall ==
  [pc |-> "idle", args |-> NoArgs, key |-> <<"", << >> >>, attempt |-> 0,
   lastError |-> NoError, requests |-> 0, sleeps |-> << >>, wakeAt |-> 0,
   sentAt |-> 0, hit |-> FALSE, result |-> NoResult, thrown |-> "",
   startedAt |-> 0, doneAt |-> 0, prior |-> {}, wiped |-> FALSE,
   cleared |-> FALSE]

InitYelp ==
  /\ now = 0
  /\ ticks = 0
  /\ cache = EmptyMap
  /\ call = [c \in Calls |-> IdleCall]
  /\ nStarted = 0
  /\ net = [c \in Calls |-> NoError]

Returned == {c \in Calls : call[c].pc = "returned" /\ ~call[c].wiped}

\* The synchronous head of sendChatMessage / getPlaceDetails / searchPlaces:
\* compute the key, read the cache, return on a hit; on a miss enter
\* retryRequest, whose first requestFn() call is made before the first await.
StartCall(c, args) ==
  LET k == CacheKeyOf(args)
      started == [IdleCall EXCEPT !.args = args, !.key = k, !.startedAt = now,
                                  !.prior = Returned]
  IN /\ c = nStarted + 1
     /\ c \in Calls
     /\ call[c].pc = "idle"
     /\ nStarted' = c
     /\ cache' = CacheAfterGet(cache, k, now)
     /\ IF CacheHit(cache, k, now)
          THEN call' = [call EXCEPT ![c] =
                          [started EXCEPT !.pc = "returned", !.hit = TRUE,
                                          !.result = cache[k].data, !.doneAt = now]]
          ELSE call' = [call EXCEPT ![c] =
                          [started EXCEPT !.pc = "request", !.requests = 1,
                                          !.sentAt = now]]
     /\ UNCHANGED <<now, ticks, net, ctxVars, httpVars, extractVars, db, page>>

\* A success whose cache write a clearCache() during the call has cancelled.
Succeed_UnlessCleared(c, d) ==
  LET result == Normalise(call[c].args, d)
  IN /\ cache' = IF call[c].cleared THEN cache
                 ELSE setCache(cache, call[c].key, result, now)
     /\ call' = [call EXCEPT ![c].pc = "returned", ![c].result = result,
                             ![c].doneAt = now]

\* The operation's own code after retryRequest returns: normalise, setCache,
\* return.
Succeed(c, d) ==
  LET result == Normalise(call[c].args, d)
  IN /\ cache' = setCache(cache, call[c].key, result, now)
     /\ call' = [call EXCEPT ![c].pc = "returned", ![c].result = result,
                             ![c].doneAt = now]

\* A catch block that also stores the failure under the call's key.
Fail_Cached(c, e) ==
  /\ cache' = setCache(cache, call[c].key, NoResult, now)
  /\ call' = [call EXCEPT ![c].pc = "threw", ![c].lastError = e,
                          ![c].thrown = handleError(e, ErrorContext(call[c].args)),
                          ![c].doneAt = now]

\* The operation's catch block: throw this.handleError(error, <context>).
Fail(c, e) ==
  /\ cache' = cache
  /\ call' = [call EXCEPT ![c].pc = "threw", ![c].lastError = e,
                          ![c].thrown = handleError(e, ErrorContext(call[c].args)),
                          ![c].doneAt = now]

\* retryRequest's catch block for the error e of the current attempt.
Caught(c, e) ==
  IF NoRetry(e)
    THEN Fail(c, e)
  ELSE IF call[c].attempt < MaxRetries - 1
    THEN /\ cache' = cache
         /\ call' = [call EXCEPT ![c].pc = "sleep", ![c].lastError = e,
                                 ![c].sleeps = Append(@, BackoffDelay(call[c].attempt)),
                                 ![c].wakeAt = now + BackoffDelay(call[c].attempt)]
  ELSE Fail(c, e)

\* The request in flight settles with outcome o.
Respond(c, o) ==
  /\ call[c].pc = "request"
  /\ net' = [net EXCEPT ![c] = o]
  /\ IF o.ok THEN Succeed(c, o.data) ELSE Caught(c, o)
  /\ UNCHANGED <<now, ticks, nStarted, ctxVars, httpVars, extractVars, db, page>>

\* sleep(delay) is over: the loop's next iteration calls requestFn() again.
Wake(c) ==
  /\ call[c].pc = "sleep"
  /\ now >= call[c].wakeAt
  /\ call' = [call EXCEPT ![c].pc = "request", ![c].attempt = @ + 1,
                          ![c].requests = @ + 1, ![c].sentAt = now]
  /\ UNCHANGED <<now, ticks, cache, nStarted, net, ctxVars, httpVars, extractVars, db, page>>

\* clearCache()
ClearCache ==
  /\ cache' = EmptyMap
  /\ call' = [c \in Calls |->
                IF call[c].pc = "returned" THEN [call[c] EXCEPT !.wiped = TRUE]
                ELSE IF call[c].pc \in {"request", "sleep"}
                  THEN [call[c] EXCEPT !.cleared = TRUE]
                ELSE call[c]]
  /\ UNCHANGED <<now, ticks, nStarted, net, ctxVars, httpVars, extractVars, db, page>>

\* Time passes.
Tick(d) ==
  /\ ticks < MaxTicks
  /\ ticks' = ticks + 1
  /\ now' = now + d
  /\ UNCHANGED <<cache, call, nStarted, net, ctxVars, httpVars, extractVars, db, page>>

Next ==
  \/ \E c \in Calls, args \in Invocations : StartCall(c, args)
  \/ \E c \in Calls, o \in CoreOutcomes : Respond(c, o)
  \/ \E c \in Calls : Wake(c)
  \/ ClearCache
  \/ \E d \in TickSteps : Tick(d)

(***************************************************************************)
(* ContextService.getCurrentContext.                                       *)
(***************************************************************************)
Absent == [present |-> FALSE, condition |-> Undefined, temperature |-> Undefined,
           description |-> Undefined]

Locations == {"{lat:1,lng:2}", "{lat:3,lng:4,name:home}"}

DayNames == <<"Sunday", "Monday", "Tuesday", "Wednesday", "Thursday", "Friday", "Saturday">>

\* getTimeContext, for the local hour and weekday of the clock.
timeOfDay(hour) ==
  IF hour >= 5 /\ hour < 12 THEN "morning"
  ELSE IF hour >= 12 /\ hour < 17 THEN "afternoon"
  ELSE IF hour >= 17 /\ hour < 21 THEN "evening"
  ELSE "night"

getTimeContext(clock) ==
  [timestamp |-> clock, timeOfDay |-> timeOfDay(clock.hour),
   dayOfWeek |-> DayNames[clock.weekday + 1]]

NoClock == [hour |-> 0, weekday |-> 0]

\* What the weather request can end in: a rejection (no response, a non-2xx
\* status, the 5 s timeout) or a 2xx response whose body has a weather list
\* (missing, empty, a first element without fields, complete) and a main
\* record (missing, without temp, complete).
WeatherShapes == {"missing", "empty", "noFields", "full"}
MainShapes == {"missing", "noTemp", "full"}

Rejections == {"network", "status", "timeout"}

WeatherReplies ==
  [kind : {"reject"}, error : Rejections, weather : {"missing"}, main : {"missing"}]
    \cup [kind : {"resolve"}, error : {"none"}, weather : WeatherShapes, main : MainShapes]

NoReply == [kind |-> "none", error |-> "none", weather |-> "missing", main |-> "missing"]

\* response.data.weather[0].main and .description throw a TypeError when the
\* list is missing or empty; response.data.main.temp when main is missing.
ReadThrows(reply) == reply.weather \in {"missing", "empty"} \/ reply.main = "missing"

\* The record the try block builds when no read throws.
WeatherOf(reply) ==
  [present |-> TRUE,
   condition |-> IF reply.weather = "full" THEN "Rain" ELSE Undefined,
   temperature |-> IF reply.main = "full" THEN "72" ELSE Undefined,
   description |-> IF reply.weather = "full" THEN "light rain" ELSE Undefined]

\* A catch block that hands the error on.
OnWeatherError_Rethrow(reply) == [threw |-> TRUE, weather |-> Absent]

\* getWeatherWithFallback's catch block: warn and return undefined.
OnWeatherError(reply) == [threw |-> FALSE, weather |-> Absent]

\* getWeatherWithFallback once the request has settled.
getWeatherWithFallback(reply) ==
  IF reply.kind = "reject" \/ ReadThrows(reply)
    THEN OnWeatherError(reply)
    ELSE [threw |-> FALSE, weather |-> WeatherOf(reply)]

NoContext == [time |-> getTimeContext(NoClock), weather |-> Absent, location |-> ""]

\* The service after its constructor, with or without a weather API key.
ContextService(hasKey) ==
  [pc |-> "idle", configured |-> hasKey, location |-> "", clock |-> NoClock,
   time |-> getTimeContext(NoClock), reply |-> NoReply, result |-> NoContext]

\* getCurrentContext up to its await: the time is read, and the weather
\* request is sent when a key is configured; without one the call returns
\* with no weather.
GetCurrentContext(location, clock) ==
  /\ ctx.pc = "idle"
  /\ LET time == getTimeContext(clock)
         begun == [ctx EXCEPT !.location = location, !.clock = clock, !.time = time]
     IN IF ctx.configured
          THEN ctx' = [begun EXCEPT !.pc = "awaitWeather"]
          ELSE ctx' = [begun EXCEPT !.pc = "returned",
                                    !.result = [time |-> time, weather |-> Absent,
                                                location |-> location]]
  /\ UNCHANGED <<yelpVars, httpVars, extractVars, db, page>>

\* The weather request settles and getCurrentContext resumes.
WeatherSettles(reply) ==
  /\ ctx.pc = "awaitWeather"
  /\ LET got == getWeatherWithFallback(reply)
     IN IF got.threw
          THEN ctx' = [ctx EXCEPT !.pc = "threw", !.reply = reply]
          ELSE ctx' = [ctx EXCEPT !.pc = "returned", !.reply = reply,
                                  !.result = [time |-> ctx.time, weather |-> got.weather,
                                              location |-> ctx.location]]
  /\ UNCHANGED <<yelpVars, httpVars, extractVars, db, page>>

(***************************************************************************)
(* The HTTP route layer: the Express app, its limiters, requireAuth, the   *)
(* routers in mount order, notFoundHandler and errorHandler.               *)
(***************************************************************************)
IPs == {"10.0.0.1", "10.0.0.2"}

\* The options each limiter is built with.
apiLimiter ==
  [windowMs |-> 15 * 60 * 1000, max |-> 100,
   message |-> [error |-> "Too Many Requests",
                message |-> "Too many requests from this IP, please try again later",
                statusCode |-> 429]]

chatLimiter ==
  [windowMs |-> 60 * 1000, max |-> 10,
   message |-> [error |-> "Too Many Requests",
                message |-> "Too many chat requests, please slow down",
                statusCode |-> 429]]

authLimiter ==
  [windowMs |-> 15 * 60 * 1000, max |-> 5,
   message |-> [error |-> "Too Many Requests",
                message |-> "Too many authentication attempts, please try again later",
                statusCode |-> 429]]

\* A limiter's store: per client IP, the hits of the current window and the
\* time the window ends.
EmptyStore == [ip \in IPs |-> [count |-> 0, resetTime |-> 0]]

\* One request counted against a limiter: a new window starts when the key
\* has none or its window has ended.
Hit(store, options, ip, t) ==
  IF store[ip].count = 0 \/ t >= store[ip].resetTime
    THEN [store EXCEPT ![ip] = [count |-> 1, resetTime |-> t + options.windowMs]]
    ELSE [store EXCEPT ![ip].count = @ + 1]

\* The routes, in the order the app registers them: the two app.get routes,
\* then the routers under /api/auth, /api/chat, /api/places, /api/user and
\* /api/context, each in the order of its file. onError is what the
\* handler's catch block does.
Route(m, p, chain, says, echo, onError) ==
  [method |-> m, path |-> p, chain |-> chain, says |-> says, echo |-> echo,
   onError |-> onError]

\* A chain for POST /message with the limiter ahead of requireAuth.
messageChain_LimiterFirst == <<"chatLimiter", "requireAuth">>

\* router.post('/message', requireAuth, chatLimiter, handler)
messageChain == <<"requireAuth", "chatLimiter">>

Routes ==
  << Route("GET", <<"health">>, <<>>, "ok", "", "none"),
     Route("GET", <<"api">>, <<>>, "Mood-Based Discovery API", "", "none"),
     Route("POST", <<"api", "auth", "verify">>, <<"requireAuth">>,
           "verified", "", "respond500"),
     Route("POST", <<"api", "chat", "message">>, messageChain,
           "Chat endpoint - to be implemented", "", "next"),
     Route("GET", <<"api", "chat", "history", ":sessionId">>, <<"requireAuth">>,
           "Chat history endpoint - to be implemented", "sessionId", "next"),
     Route("DELETE", <<"api", "chat", "session", ":sessionId">>, <<"requireAuth">>,
           "Session cleared - to be implemented", "sessionId", "next"),
     Route("GET", <<"api", "places", "search">>, <<"requireAuth">>,
           "Place search endpoint - to be implemented", "", "next"),
     Route("GET", <<"api", "places", ":placeId">>, <<"requireAuth">>,
           "Place details endpoint - to be implemented", "placeId", "next"),
     Route("POST", <<"api", "places", "save">>, <<"requireAuth">>,
           "Place save endpoint - to be implemented", "", "next"),
     Route("GET", <<"api", "places", "saved">>, <<"requireAuth">>,
           "Saved places endpoint - to be implemented", "", "next"),
     Route("DELETE", <<"api", "places", "saved", ":id">>, <<"requireAuth">>,
           "Delete saved place endpoint - to be implemented", "id", "next"),
     Route("GET", <<"api", "user", "profile">>, <<"requireAuth">>,
           "User profile endpoint - to be implemented", "", "next"),
     Route("PATCH", <<"api", "user", "preferences">>, <<"requireAuth">>,
           "User preferences endpoint - to be implemented", "", "next"),
     Route("GET", <<"api", "context", "current">>, <<"requireAuth">>,
           "Context endpoint - to be implemented", "", "next") >>

NoRoute == 0

StartsWith(s, prefix) == Len(s) >= Len(prefix) /\ SubSeq(s, 1, Len(prefix)) = prefix

\* The first registered route that matches, or NoRoute. A route path matches
\* a request path segment by segment; a segment that starts with a colon is
\* a parameter and matches any segment.
Dispatch(method, path) ==
  LET Matches(route) ==
        /\ route.method = method
        /\ Len(route.path) = Len(path)
        /\ \A i \in 1..Len(path) :
             StartsWith(route.path[i], ":") \/ route.path[i] = path[i]
      hits == {i \in 1..Len(Routes) : Matches(Routes[i])}
  IN IF hits = {} THEN NoRoute ELSE CHOOSE i \in hits : \A j \in hits : i <= j

\* The errors a handler or the body parser can pass to next: an AppError
\* with its status code, a plain Error without one, the parser's SyntaxError.
AppError(message, statusCode) ==
  [name |-> "Error", message |-> message, statusCode |-> statusCode]

GenericError(message) == [name |-> "Error", message |-> message, statusCode |-> NoStatus]

ParseError ==
  [name |-> "SyntaxError", message |-> "Unexpected token } in JSON at position 12",
   statusCode |-> 400]

NoFault == [name |-> "", message |-> "", statusCode |-> NoStatus]

GenericErrors ==
  {GenericError("connect ECONNREFUSED 10.1.2.3:27017"),
   GenericError("Cannot read properties of undefined"), GenericError("")}

Faults ==
  {AppError("Invalid place id", 400), AppError("Place not found", 404),
   AppError("Upstream unavailable", 503), AppError("Upstream said no", 500)}
    \cup GenericErrors

\* A status that is 500 whatever the error carries.
StatusOf_Always500(err) == 500

\* err.statusCode || 500
StatusOf(err) == IF err.statusCode = NoStatus THEN 500 ELSE err.statusCode

ErrorBody(error, message, statusCode) ==
  [error |-> error, message |-> message, statusCode |-> statusCode]

\* errorHandler: the status and the body it sends. message is err.message ||
\* 'Internal Server Error', the label is 'Internal Server Error' from 500 on
\* and err.name || 'Error' below, and the stack (which starts with the
\* error's name and message) is spread into the body in development only.
errorHandler(err, nodeEnv) ==
  LET statusCode == StatusOf(err)
      message == IF err.message = "" THEN "Internal Server Error" ELSE err.message
      label == IF statusCode >= 500 THEN "Internal Server Error"
               ELSE IF err.name = "" THEN "Error" ELSE err.name
  IN [status |-> statusCode,
      body |-> IF nodeEnv = "development"
                 THEN [error |-> label, message |-> message, statusCode |-> statusCode,
                       stack |-> err.name \o ": " \o err.message \o " at handler"]
                 ELSE ErrorBody(label, message, statusCode)]

notFoundHandler ==
  [status |-> 404,
   body |-> ErrorBody("Not Found", "The requested resource was not found", 404)]

\* requireAuth's three refusals.
Unauthorized(text) == [status |-> 401, body |-> ErrorBody("Unauthorized", text, 401)]

\* A check that refuses a missing header only.
HeaderRefused_OnlyMissing(authorization) == authorization = Undefined \/ authorization = ""

\* !authHeader || !authHeader.startsWith('Bearer ')
HeaderRefused(authorization) ==
  authorization = Undefined \/ authorization = "" \/ ~StartsWith(authorization, "Bearer ")

\* What clerkClient.sessions.verifySession can do with a token.
NoAuth == [userId |-> Undefined, sessionId |-> Undefined]
Sessions == {[kind |-> "session", userId |-> "user_1", id |-> "sess_1"]}
Verdicts == Sessions \cup {[kind |-> "null", userId |-> Undefined, id |-> Undefined],
                           [kind |-> "throws", userId |-> Undefined, id |-> Undefined]}

\* The requests the model sends.
Targets ==
  {<<"GET", <<"health">>>>, <<"GET", <<"api", "nowhere">>>>,
   <<"POST", <<"api", "auth", "verify">>>>,
   <<"POST", <<"api", "chat", "message">>>>,
   <<"GET", <<"api", "chat", "history", "sess_1">>>>,
   <<"DELETE", <<"api", "chat", "session", "sess_1">>>>,
   <<"GET", <<"api", "places", "search">>>>,
   <<"GET", <<"api", "places", "saved">>>>,
   <<"GET", <<"api", "places", "p1">>>>}

Request(target, ip, authorization, body) ==
  [method |-> target[1], path |-> target[2], ip |-> ip,
   authorization |-> authorization, body |-> body]

Requests ==
  {Request(t, ip, a, "json") :
     t \in Targets, ip \in IPs, a \in {Undefined, "Basic dXNlcjpwdw==", "Bearer tok_1"}}
    \cup {Request(<<"POST", <<"api", "chat", "message">>>>, ip, "Bearer tok_1", "malformed") :
            ip \in IPs}

\* One request on its way through the app.
\*   pc: "idle", "verifying" (requireAuth awaits verifySession), "done"
\*   route, at: the dispatched route and the position in its chain
\*   verdict: what verifySession gave: "none" yet, "session", "null", "throws"
\*   auth: req.auth; nextCalls: how often requireAuth has called next
\*   ran: the route whose handler body has run, NoRoute when none has
\*   error: the error handed to errorHandler, NoFault when none was
\*   status, reply, by: the response and the function that sent it
IdleRequest ==
  [pc |-> "idle", in |-> Request(<<"", <<>>>>, "", Undefined, ""), route |-> NoRoute, at |-> 0, verdict |-> "none",
   auth |-> NoAuth, nextCalls |-> 0, ran |-> NoRoute, error |-> NoFault, status |-> 0,
   reply |-> [message |-> ""], by |-> ""]

Answer(req, response, by) ==
  [req EXCEPT !.pc = "done", !.status = response.status, !.reply = response.body, !.by = by]

\* The app after start-up: empty limiter stores, no request yet. seen is
\* history: per IP, the authenticated requests to the routes under /api/auth
\* and under /api/chat, counted in windows of authLimiter and chatLimiter.
App(nodeEnv) ==
  [clock |-> 0, ticks |-> 0, served |-> 0, nodeEnv |-> nodeEnv,
   stores |-> [api |-> EmptyStore, chat |-> EmptyStore],
   seen |-> [auth |-> EmptyStore, chat |-> EmptyStore], req |-> IdleRequest]

InitHttp == http = App("production")

\* The route handler: its try block, which sends the stub's body with the
\* user id and the route parameter it echoes, and its catch block when the
\* try block fails with the given fault.
RunHandler(app, fault) ==
  LET route == Routes[app.req.route]
      ran == [app.req EXCEPT !.ran = app.req.route]
      at == {i \in 1..Len(route.path) : route.path[i] = ":" \o route.echo}
      echoed == IF route.echo = "" \/ at = {} THEN ""
                ELSE ran.in.path[CHOOSE i \in at : TRUE]
      body == IF route.says = "verified"
                THEN [userId |-> ran.auth.userId, sessionId |-> ran.auth.sessionId,
                      verified |-> TRUE]
                ELSE [message |-> route.says, userId |-> ran.auth.userId,
                      echoed |-> echoed]
  IN IF fault = NoFault
       THEN IF route.says = "verified" /\ ran.auth = NoAuth
              THEN Answer(ran, Unauthorized("No authentication information found"), "handler")
              ELSE Answer(ran, [status |-> 200, body |-> body], "handler")
       ELSE IF route.onError = "respond500"
              THEN Answer(ran, [status |-> 500,
                                body |-> ErrorBody("Internal Server Error",
                                                   "Failed to verify session", 500)],
                          "handler")
              ELSE Answer([ran EXCEPT !.error = fault],
                          errorHandler(fault, app.nodeEnv), "errorHandler")

\* The dispatched route's chain from position i: requireAuth up to its
\* await, chatLimiter, and after the last middleware the handler.
RECURSIVE RunChain(_, _, _)
RunChain(app, i, fault) ==
  LET req == app.req
      chain == Routes[req.route].chain
  IN IF i > Len(chain)
       THEN [app EXCEPT !.req = RunHandler(app, fault)]
       ELSE IF chain[i] = "chatLimiter"
         THEN LET store == Hit(app.stores.chat, chatLimiter, req.in.ip, app.clock)
                  counted == [app EXCEPT !.stores.chat = store]
              IN IF store[req.in.ip].count > chatLimiter.max
                   THEN [counted EXCEPT
                           !.req = Answer(req, [status |-> 429, body |-> chatLimiter.message],
                                          "chatLimiter")]
                   ELSE RunChain(counted, i + 1, fault)
         ELSE IF HeaderRefused(req.in.authorization)
                THEN [app EXCEPT
                        !.req = Answer(req,
                                       Unauthorized("Missing or invalid authorization header"),
                                       "requireAuth")]
                ELSE [app EXCEPT !.req.pc = "verifying", !.req.at = i]

\* A request arrives: the body parser, the general limiter for paths under
\* /api, the dispatch, and the route's chain up to the first await. The
\* model serves no more than budget requests.
Receive(r, budget) ==
  /\ http.req.pc \in {"idle", "done"}
  /\ http.served < budget
  /\ LET fresh == [IdleRequest EXCEPT !.in = r]
         begun == [http EXCEPT !.served = @ + 1, !.req = fresh]
         underApi == Len(r.path) >= 1 /\ r.path[1] = "api"
         counted == IF underApi
                      THEN [begun EXCEPT
                              !.stores.api = Hit(@, apiLimiter, r.ip, http.clock)]
                      ELSE begun
         route == Dispatch(r.method, r.path)
     IN http' =
          IF r.body = "malformed"
            THEN [begun EXCEPT
                    !.req = Answer([fresh EXCEPT !.error = ParseError],
                                   errorHandler(ParseError, http.nodeEnv), "errorHandler")]
          ELSE IF underApi /\ counted.stores.api[r.ip].count > apiLimiter.max
            THEN [counted EXCEPT
                    !.req = Answer(fresh, [status |-> 429, body |-> apiLimiter.message],
                                   "apiLimiter")]
          ELSE IF route = NoRoute
            THEN [counted EXCEPT !.req = Answer(fresh, notFoundHandler, "notFoundHandler")]
          ELSE RunChain([counted EXCEPT !.req.route = route], 1, NoFault)
  /\ UNCHANGED <<yelpVars, ctxVars, extractVars, db, page>>

\* The router a request path belongs to: the segment after /api.
RouterOf(path) == IF Len(path) >= 2 THEN path[2] ELSE ""

Seen(app) ==
  LET router == RouterOf(app.req.in.path)
  IN IF router = "auth"
       THEN [app EXCEPT !.seen.auth = Hit(@, authLimiter, app.req.in.ip, app.clock)]
     ELSE IF router = "chat"
       THEN [app EXCEPT !.seen.chat = Hit(@, chatLimiter, app.req.in.ip, app.clock)]
     ELSE app

\* verifySession settles and requireAuth resumes: it refuses, or sets
\* req.auth and calls next, which runs the rest of the chain and the handler.
VerifySettles(verdict, fault) ==
  /\ http.req.pc = "verifying"
  /\ LET settled == [http EXCEPT !.req.verdict = verdict.kind]
     IN http' =
          IF verdict.kind = "throws"
            THEN [settled EXCEPT
                    !.req = Answer(@, Unauthorized("Authentication failed"), "requireAuth")]
          ELSE IF verdict.kind = "null"
            THEN [settled EXCEPT
                    !.req = Answer(@, Unauthorized("Invalid or expired session token"),
                                   "requireAuth")]
          ELSE RunChain([Seen(settled) EXCEPT
                           !.req.auth = [userId |-> verdict.userId, sessionId |-> verdict.id],
                           !.req.nextCalls = @ + 1],
                        http.req.at + 1, fault)
  /\ UNCHANGED <<yelpVars, ctxVars, extractVars, db, page>>

\* Time passes for the app.
HttpTick(d) ==
  /\ http.ticks < MaxTicks
  /\ http' = [http EXCEPT !.clock = @ + d, !.ticks = @ + 1]
  /\ UNCHANGED <<yelpVars, ctxVars, extractVars, db, page>>

(***************************************************************************)
(* ContextService.extractContextFromConversation: text as strings,         *)
(* keywords as substrings, the group-size patterns as regular expressions. *)
(***************************************************************************)
UpperCase == "ABCDEFGHIJKLMNOPQRSTUVWXYZ"
LowerCase == "abcdefghijklmnopqrstuvwxyz"
Digits == "0123456789"

CharAt(s, i) == SubSeq(s, i, i)

\* The position of a character in an alphabet, 0 when it is not in it.
IndexIn(alphabet, c) ==
  LET at == {i \in 1..Len(alphabet) : CharAt(alphabet, i) = c}
  IN IF at = {} THEN 0 ELSE CHOOSE i \in at : TRUE

RECURSIVE toLowerCase(_)
toLowerCase(s) ==
  LET i == IndexIn(UpperCase, CharAt(s, 1))
      first == IF i = 0 THEN CharAt(s, 1) ELSE CharAt(LowerCase, i)
  IN IF s = "" THEN "" ELSE first \o toLowerCase(SubSeq(s, 2, Len(s)))

\* Array.prototype.join(' ')
RECURSIVE join(_)
join(parts) ==
  IF Len(parts) = 0 THEN ""
  ELSE IF Len(parts) = 1 THEN parts[1]
  ELSE parts[1] \o " " \o join(Tail(parts))

\* String.prototype.includes
includes(text, keyword) ==
  \E i \in 1..(Len(text) - Len(keyword) + 1) : SubSeq(text, i, i + Len(keyword) - 1) = keyword

\* The keyword tables, in the order Object.entries gives their entries.
moodKeywords ==
  << <<"romantic", <<"romantic", "date", "intimate", "cozy", "candlelit">> >>,
     <<"casual", <<"casual", "relaxed", "laid-back", "chill">> >>,
     <<"energetic", <<"energetic", "lively", "vibrant", "bustling", "busy">> >>,
     <<"quiet", <<"quiet", "peaceful", "calm", "serene", "tranquil">> >>,
     <<"upscale", <<"upscale", "fancy", "elegant", "sophisticated", "fine dining">> >> >>

\* A table in which 'date night' is found by 'date' and 'anniversary' only.
occasionKeywords_Fewer ==
  << <<"date night", <<"date", "anniversary">> >>,
     <<"business meeting", <<"business", "meeting", "professional", "client">> >>,
     <<"group hangout", <<"friends", "group", "hangout", "gathering">> >>,
     <<"family dinner", <<"family", "kids", "children">> >>,
     <<"celebration", <<"celebration", "birthday", "party", "special occasion">> >> >>

occasionKeywords ==
  << <<"date night", <<"date", "romantic dinner", "anniversary">> >>,
     <<"business meeting", <<"business", "meeting", "professional", "client">> >>,
     <<"group hangout", <<"friends", "group", "hangout", "gathering">> >>,
     <<"family dinner", <<"family", "kids", "children">> >>,
     <<"celebration", <<"celebration", "birthday", "party", "special occasion">> >> >>

\* The for loop over a table: the name of the first entry one of whose
\* keywords the text includes.
FirstEntry(table, text) ==
  LET hits == {i \in 1..Len(table) :
                 \E k \in 1..Len(table[i][2]) : includes(text, table[i][2][k])}
  IN IF hits = {} THEN [found |-> FALSE, name |-> ""]
     ELSE [found |-> TRUE, name |-> table[CHOOSE i \in hits : \A j \in hits : i <= j][1]]

\* The group-size patterns: each is \b, its tokens separated by \s+, and \b;
\* "#" stands for the capture group (\d+).
\* A table with the first pattern only.
groupSizePatterns_PeopleOnly == << <<"#", "people">> >>

\* A table that tries '<n> of us' before '<n> people'.
groupSizePatterns_Reordered ==
  << <<"#", "of", "us">>, <<"group", "of", "#">>, <<"party", "of", "#">>,
     <<"#", "people">>, <<"for", "#">>, <<"just", "for", "#">> >>

groupSizePatterns ==
  << <<"#", "people">>, <<"group", "of", "#">>, <<"party", "of", "#">>,
     <<"#", "of", "us">>, <<"for", "#">>, <<"just", "for", "#">> >>

IsDigit(c) == IndexIn(Digits, c) # 0

\* \b at position i: exactly one of the characters before and at i is a
\* word character (a letter, a digit or an underscore).
Boundary(text, i) ==
  LET IsWordChar(c) ==
        IsDigit(c) \/ IndexIn(LowerCase, c) # 0 \/ IndexIn(UpperCase, c) # 0 \/ c = "_"
      WordAt(j) == j >= 1 /\ j <= Len(text) /\ IsWordChar(CharAt(text, j))
  IN WordAt(i - 1) # WordAt(i)

\* The position after the longest run of digits (\d+) or of whitespace
\* (\s+) that starts at i.
RECURSIVE DigitsEnd(_, _)
DigitsEnd(text, i) ==
  IF i <= Len(text) /\ IsDigit(CharAt(text, i)) THEN DigitsEnd(text, i + 1) ELSE i

RECURSIVE SpaceEnd(_, _)
SpaceEnd(text, i) ==
  IF i <= Len(text) /\ CharAt(text, i) \in {" ", "\t", "\n"} THEN SpaceEnd(text, i + 1) ELSE i

\* parseInt(digits, 10)
RECURSIVE parseInt(_)
parseInt(digits) ==
  IF digits = "" THEN 0
  ELSE parseInt(SubSeq(digits, 1, Len(digits) - 1)) * 10
         + (IndexIn(Digits, CharAt(digits, Len(digits))) - 1)

NoMatch == [found |-> FALSE, capture |-> ""]

\* The pattern's tokens from the k-th on, matched at position i.
RECURSIVE MatchFrom(_, _, _, _, _)
MatchFrom(text, tokens, k, i, capture) ==
  IF k > Len(tokens)
    THEN IF Boundary(text, i) THEN [found |-> TRUE, capture |-> capture] ELSE NoMatch
    ELSE LET start == IF k = 1 THEN i ELSE SpaceEnd(text, i)
             stop == start + Len(tokens[k]) - 1
         IN IF k > 1 /\ start = i THEN NoMatch
            ELSE IF tokens[k] = "#"
              THEN IF DigitsEnd(text, start) = start THEN NoMatch
                   ELSE MatchFrom(text, tokens, k + 1, DigitsEnd(text, start),
                                  SubSeq(text, start, DigitsEnd(text, start) - 1))
              ELSE IF stop <= Len(text) /\ SubSeq(text, start, stop) = tokens[k]
                     THEN MatchFrom(text, tokens, k + 1, stop + 1, capture)
                     ELSE NoMatch

\* A search that goes on to later occurrences (as a loop over matchAll
\* would): the leftmost occurrence whose capture is in 1..100 if there is
\* one, the leftmost occurrence otherwise.
match_AnyOccurrence(text, tokens) ==
  LET MatchAt(i) == IF Boundary(text, i) THEN MatchFrom(text, tokens, 1, i, "") ELSE NoMatch
      starts == {i \in 1..Len(text) : MatchAt(i).found}
      good == {i \in starts : parseInt(MatchAt(i).capture) \in 1..100}
      from == IF good = {} THEN starts ELSE good
  IN IF starts = {} THEN NoMatch
     ELSE MatchAt(CHOOSE i \in from : \A j \in from : i <= j)

\* String.prototype.match with a pattern without the g flag: the leftmost
\* match.
match(text, tokens) ==
  LET MatchAt(i) == IF Boundary(text, i) THEN MatchFrom(text, tokens, 1, i, "") ELSE NoMatch
      starts == {i \in 1..Len(text) : MatchAt(i).found}
  IN IF starts = {} THEN NoMatch
     ELSE MatchAt(CHOOSE i \in starts : \A j \in starts : i <= j)

NoSize == [found |-> FALSE, size |-> 0]

\* The loop over groupSizePatterns from the k-th pattern on.
RECURSIVE ScanPatterns(_, _)
ScanPatterns(text, k) ==
  IF k > Len(groupSizePatterns) THEN NoSize
  ELSE LET m == match(text, groupSizePatterns[k])
       IN IF m.found /\ m.capture # "" /\ parseInt(m.capture) > 0 /\ parseInt(m.capture) <= 100
            THEN [found |-> TRUE, size |-> parseInt(m.capture)]
            ELSE ScanPatterns(text, k + 1)

IsSolo(text) ==
  \E phrase \in {"just me", "by myself", "solo", "just for me"} : includes(text, phrase)

\* A resolution that lets a numeric pattern win over a solo phrase.
GroupSize_PatternsFirst(text) ==
  IF ScanPatterns(text, 1).found THEN ScanPatterns(text, 1)
  ELSE IF IsSolo(text) THEN [found |-> TRUE, size |-> 1] ELSE NoSize

\* The solo check and, without a solo phrase, the pattern loop.
GroupSize(text) ==
  IF IsSolo(text) THEN [found |-> TRUE, size |-> 1] ELSE ScanPatterns(text, 1)

\* The turns the model draws conversations from.
Contents ==
  {"Looking for a romantic dinner for 2 people", "Need a place for a group of 8",
   "Hello", "By myself, not with 6 people", "Actually just for 2",
   "5 of us, maybe 3 people", "0 people, party of 4", "200 people or 5 people",
   "SOLO table, not a GROUP OF 8"}

Turns == [role : {"user", "assistant"}, content : Contents]

Conversations == UNION {[1..n -> Turns] : n \in 0..MaxTurns}

\* A scan buffer built from every turn, whoever spoke.
conversationText_AllTurns(messages) ==
  join([i \in 1..Len(messages) |-> toLowerCase(messages[i].content)])

\* The text the function scans: the user turns, lower-cased, joined by a
\* space.
conversationText(messages) ==
  LET userMessages == SelectSeq(messages, LAMBDA msg : msg.role = "user")
  IN join([i \in 1..Len(userMessages) |-> toLowerCase(userMessages[i].content)])

\* const context = {}
EmptyContext == [field \in {} |-> ""]

extractContextFromConversation(messages) ==
  LET text == conversationText(messages)
      mood == FirstEntry(moodKeywords, text)
      occasion == FirstEntry(occasionKeywords, text)
      groupSize == GroupSize(text)
  IN (IF mood.found THEN "mood" :> mood.name ELSE EmptyContext)
       @@ (IF occasion.found THEN "occasion" :> occasion.name ELSE EmptyContext)
       @@ (IF groupSize.found THEN "groupSize" :> groupSize.size ELSE EmptyContext)

InitExtraction ==
  extraction = [pc |-> "idle", messages |-> <<>>, result |-> EmptyContext]

\* One call of extractContextFromConversation; the function has no await.
ExtractContext(messages) ==
  /\ extraction.pc = "idle"
  /\ extraction' = [pc |-> "returned", messages |-> messages,
                    result |-> extractContextFromConversation(messages)]
  /\ UNCHANGED <<yelpVars, ctxVars, httpVars, db, page>>

(***************************************************************************)
(* The database: the SavedPlace collection with its unique index on        *)
(* (userId, placeId), the Session collection with its TTL index on         *)
(* expiresAt.                                                              *)
(*   clock, ticks   the server's time in milliseconds, and its advances    *)
(*   savedPlaces    the rows of the collection; saves: inserts attempted   *)
(*   lastSave       the latest insert and how it ended                     *)
(*   sessions       the rows of the collection; created: rows ever made    *)
(***************************************************************************)
\* An index that is unique on placeId alone.
DuplicateKey_PlaceOnly(rows, userId, placeId) == \E row \in rows : row.placeId = placeId

\* SavedPlaceSchema.index({ userId: 1, placeId: 1 }, { unique: true }): the
\* insert of a document whose pair a row already has fails with E11000.
DuplicateKey(rows, userId, placeId) ==
  \E row \in rows : row.userId = userId /\ row.placeId = placeId

\* SavedPlace.create({ userId, placeId, ... })
SavePlace(userId, placeId) ==
  /\ db.saves < MaxSaves
  /\ db' = IF DuplicateKey(db.savedPlaces, userId, placeId)
             THEN [db EXCEPT !.saves = @ + 1,
                             !.lastSave = [userId |-> userId, placeId |-> placeId,
                                           result |-> "E11000 duplicate key"]]
             ELSE [db EXCEPT !.saves = @ + 1,
                             !.savedPlaces = @ \cup {[id |-> db.saves + 1, userId |-> userId,
                                                      placeId |-> placeId]},
                             !.lastSave = [userId |-> userId, placeId |-> placeId,
                                           result |-> "saved"]]
  /\ UNCHANGED <<yelpVars, ctxVars, httpVars, extractVars, page>>

\* A default computed once, when the schema is loaded at time 0.
DefaultExpiresAt_AtSchemaLoad(t) == 0 + 24 * 60 * 60 * 1000

\* default: () => new Date(Date.now() + 24 * 60 * 60 * 1000)
DefaultExpiresAt(t) == t + 24 * 60 * 60 * 1000

\* new Session({ ... }).save(), with an expiresAt of its own (an hour from
\* now) or without one; lastActivity defaults to Date.now.
CreateSession(explicit) ==
  /\ db.created < MaxSessions
  /\ db' = [db EXCEPT
              !.created = @ + 1,
              !.sessions = @ \cup {[id |-> db.created + 1, createdAt |-> db.clock,
                                    explicit |-> explicit, lastActivity |-> db.clock,
                                    expiresAt |-> IF explicit THEN db.clock + 60 * 60 * 1000
                                                  ELSE DefaultExpiresAt(db.clock)]}]
  /\ UNCHANGED <<yelpVars, ctxVars, httpVars, extractVars, page>>

\* An update of a row's lastActivity to the current time.
TouchSession(id) ==
  /\ \E row \in db.sessions : row.id = id /\ row.lastActivity < db.clock
  /\ db' = [db EXCEPT !.sessions = {IF row.id = id THEN [row EXCEPT !.lastActivity = db.clock]
                                    ELSE row : row \in @}]
  /\ UNCHANGED <<yelpVars, ctxVars, httpVars, extractVars, page>>

\* SessionSchema.index({ expiresAt: 1 }, { expireAfterSeconds: 0 }): a pass
\* of the database's TTL monitor removes the rows whose expiresAt has come.
TtlMonitor ==
  /\ \E row \in db.sessions : row.expiresAt <= db.clock
  /\ db' = [db EXCEPT !.sessions = {row \in @ : row.expiresAt > db.clock}]
  /\ UNCHANGED <<yelpVars, ctxVars, httpVars, extractVars, page>>

\* Time passes for the database: an hour or a day.
DbTick(d) ==
  /\ db.ticks < MaxTicks
  /\ db' = [db EXCEPT !.clock = @ + d, !.ticks = @ + 1]
  /\ UNCHANGED <<yelpVars, ctxVars, httpVars, extractVars, page>>

(***************************************************************************)
(* The home page, with the maps SDK loaded and an API key configured.      *)
(*   mounted      the first render has been committed                      *)
(*   pending      the components whose state was set since the last render *)
(*   messages, isLoading, timers, sends                                    *)
(*                HomePage's state, its pending setTimeout callbacks and   *)
(*                the calls of handleSendMessage so far                    *)
(*   map          Map's state: the instance handed to onMapReady, 0 = null *)
(*   handlers     the identity of the eventHandlers object of Map's latest *)
(*                render (the number of that render)                       *)
(*   deps         the eventHandlers and userLocation the initialisation    *)
(*                effect last ran with                                     *)
(*   created      how many google.maps.Map instances have been constructed *)
(*   instanceRef  mapInstanceRef.current                                   *)
(*   containerLoading, userLocation, geolocation                           *)
(*                MapContainer's state, and its getCurrentPosition request *)
(***************************************************************************)
\* HomePage.handleSendMessage: append the user message, set isLoading, start
\* the timer of the simulated response.
handleSendMessage(messageText) ==
  /\ page.mounted
  /\ page.sends < MaxSends
  /\ page' = [page EXCEPT
                !.messages = Append(@, [role |-> "user", content |-> messageText,
                                        recommendations |-> <<>>]),
                !.isLoading = TRUE,
                !.timers = @ + 1,
                !.sends = @ + 1,
                !.pending = @ \cup {"HomePage"}]
  /\ UNCHANGED <<yelpVars, ctxVars, httpVars, extractVars, db>>

\* The setTimeout callback of handleSendMessage: append the assistant
\* message with its two recommendations (relevance 0.95 and 0.88, in
\* hundredths), clear isLoading.
ResponseArrives ==
  /\ page.timers > 0
  /\ page' = [page EXCEPT
                !.messages = Append(@, [role |-> "assistant",
                                        content |-> "Here are some recommendations",
                                        recommendations |-> <<95, 88>>]),
                !.isLoading = FALSE,
                !.timers = @ - 1,
                !.pending = @ \cup {"HomePage"}]
  /\ UNCHANGED <<yelpVars, ctxVars, httpVars, extractVars, db>>

\* The success callback of getCurrentPosition: setUserLocation, and
\* setCenter on the instance of mapInstanceRef.
PositionArrives ==
  /\ page.geolocation = "asked"
  /\ page' = [page EXCEPT !.geolocation = "answered", !.userLocation = "here",
                          !.pending = @ \cup {"MapContainer"}]
  /\ UNCHANGED <<yelpVars, ctxVars, httpVars, extractVars, db>>

\* One render pass and the effects that follow it. Map's function runs on
\* the first render and when HomePage's or its own state was set, and builds
\* a new eventHandlers object each time it runs; handleMapReady is the same
\* function in every render (useCallback with no dependencies) and config is
\* undefined. MapContainer's initialisation effect runs on the first render
\* and when eventHandlers or userLocation is not the one it last ran with:
\* initializeMap constructs a google.maps.Map, stores it in mapInstanceRef,
\* calls setIsLoading(false) and onMapReady(map), which is Map's setMap. The
\* geolocation effect runs on the first render only.
Render ==
  LET mapRuns == ~page.mounted \/ page.pending \cap {"HomePage", "Map"} # {}
      handlers == IF mapRuns THEN page.handlers + 1 ELSE page.handlers
      deps == [eventHandlers |-> handlers, userLocation |-> page.userLocation]
      effectRuns == ~page.mounted \/ deps # page.deps
      instance == page.created + 1
      rendered == [page EXCEPT !.mounted = TRUE, !.handlers = handlers, !.pending = {},
                               !.geolocation = IF page.mounted THEN @ ELSE "asked"]
  IN /\ page.pending # {}
     /\ effectRuns => page.created < MaxInstances
     /\ page' = IF effectRuns
                  THEN [rendered EXCEPT
                          !.deps = deps,
                          !.created = instance,
                          !.instanceRef = instance,
                          !.containerLoading = FALSE,
                          !.map = instance,
                          !.pending = (IF page.containerLoading THEN {"MapContainer"} ELSE {})
                                        \cup (IF page.map # instance THEN {"Map"} ELSE {})]
                  ELSE rendered
     /\ UNCHANGED <<yelpVars, ctxVars, httpVars, extractVars, db>>

\* Empty collections, and the home page not yet mounted.
InitStores ==
  /\ db = [clock |-> 0, ticks |-> 0, savedPlaces |-> {}, saves |-> 0,
           lastSave |-> [userId |-> "", placeId |-> "", result |-> "none"],
           sessions |-> {}, created |-> 0]
  /\ page =
       [mounted |-> FALSE, pending |-> {"HomePage"}, messages |-> <<>>, isLoading |-> FALSE,
        timers |-> 0, sends |-> 0, map |-> 0, handlers |-> 0,
        deps |-> [eventHandlers |-> 0, userLocation |-> "null"], created |-> 0,
        instanceRef |-> 0, containerLoading |-> TRUE, userLocation |-> "null",
        geolocation |-> "idle"]

Init == InitYelp /\ ctx = ContextService(FALSE) /\ InitHttp /\ InitExtraction /\ InitStores

InitWeather ==
  /\ InitYelp
  /\ \E hasKey \in BOOLEAN : ctx = ContextService(hasKey)
  /\ InitHttp
  /\ InitExtraction
  /\ InitStores

NextWeather ==
  \/ \E l \in Locations, h \in 0..23, d \in 0..6 :
       GetCurrentContext(l, [hour |-> h, weekday |-> d])
  \/ \E reply \in WeatherReplies : WeatherSettles(reply)

SpecWeather == InitWeather /\ [][NextWeather]_vars

(***************************************************************************)
(* The app serving requests, in production or development mode, with or   *)
(* without earlier traffic in the general limiter's window (requests to    *)
(* GET /api at time 0).                                                    *)
(***************************************************************************)
InitApp ==
  /\ InitYelp
  /\ ctx = ContextService(FALSE)
  /\ \E nodeEnv \in {"production", "development"}, earlier \in {0, apiLimiter.max - 1} :
       http = IF earlier = 0 THEN App(nodeEnv)
              ELSE [App(nodeEnv) EXCEPT
                      !.stores.api = [ip \in IPs |-> [count |-> earlier,
                                                      resetTime |-> apiLimiter.windowMs]]]
  /\ InitExtraction
  /\ InitStores

NextApp ==
  \/ \E r \in Requests : Receive(r, MaxRequests)
  \/ \E verdict \in Verdicts, fault \in Faults \cup {NoFault} : VerifySettles(verdict, fault)
  \/ \E d \in {30 * 1000, 15 * 60 * 1000} : HttpTick(d)

SpecApp == InitApp /\ [][NextApp]_vars

(***************************************************************************)
(* A burst of authenticated requests from one IP to the auth and chat      *)
(* endpoints.                                                              *)
(***************************************************************************)
NextBurst ==
  \/ \E r \in
       {Request(t, "10.0.0.1", "Bearer tok_1", "json") :
          t \in {<<"POST", <<"api", "auth", "verify">>>>,
                 <<"POST", <<"api", "chat", "message">>>>,
                 <<"GET", <<"api", "chat", "history", "sess_1">>>>}} :
       Receive(r, MaxBurst)
  \/ \E verdict \in Sessions : VerifySettles(verdict, NoFault)
  \/ \E d \in {30 * 1000, 15 * 60 * 1000} : HttpTick(d)

SpecBurst == Init /\ [][NextBurst]_vars

Spec == Init /\ [][Next]_vars

(***************************************************************************)
(* The context extractor called once, with any conversation of the model.  *)
(***************************************************************************)
NextExtract == \E messages \in Conversations : ExtractContext(messages)

SpecExtract == Init /\ [][NextExtract]_vars

(***************************************************************************)
(* The SavedPlace collection under inserts.                                *)
(***************************************************************************)
NextSaved ==
  \E userId \in {"user_1", "user_2"}, placeId \in {"p1", "p2"} : SavePlace(userId, placeId)

SpecSaved == Init /\ [][NextSaved]_vars

(***************************************************************************)
(* The Session collection under inserts, updates of lastActivity, the TTL  *)
(* monitor and the passing of time; the monitor keeps running.             *)
(***************************************************************************)
NextSessions ==
  \/ \E explicit \in BOOLEAN : CreateSession(explicit)
  \/ \E id \in 1..MaxSessions : TouchSession(id)
  \/ TtlMonitor
  \/ \E d \in {60 * 60 * 1000, 24 * 60 * 60 * 1000} : DbTick(d)

SpecSessions == Init /\ [][NextSessions]_vars /\ WF_vars(TtlMonitor)

(***************************************************************************)
(* The home page in a browser: renders, messages sent, the simulated       *)
(* responses, the position of the user.                                    *)
(***************************************************************************)
NextPage ==
  \/ Render
  \/ \E messageText \in Messages : handleSendMessage(messageText)
  \/ ResponseArrives
  \/ PositionArrives

SpecPage == Init /\ [][NextPage]_vars

(***************************************************************************)
(* One invocation, against a remote service that can answer in every way.  *)
(***************************************************************************)
NextOne ==
  \/ \E args \in Invocations : StartCall(1, args)
  \/ \E o \in Outcomes : Respond(1, o)
  \/ Wake(1)
  \/ \E d \in TickSteps : Tick(d)

SpecOne == Init /\ [][NextOne]_vars

(***************************************************************************)
(* Claims about the recommendation client.                                 *)
(***************************************************************************)
Started == {c \in Calls : call[c].pc # "idle"}
Finished == {c \in Calls : call[c].pc \in {"returned", "threw"}}

\* c1 had returned through the network, writing the cache, before c2 started
\* with the same operation and parameters, and no clearCache() ran between.
Precedes(c1, c2) ==
  /\ c1 \in call[c2].prior
  /\ ~call[c1].hit
  /\ call[c1].args = call[c2].args

\* C1 as stated: two calls of the same operation with identical parameters,
\* both made within the TTL window, issue at most one outbound request in
\* total, whether the second starts after the first has completed or while it
\* is still in flight.
C1_AtMostOneRequest ==
  \A c1 \in Started, c2 \in Started :
    (/\ c1 < c2
     /\ call[c1].args = call[c2].args
     /\ call[c2].startedAt - call[c1].startedAt <= CACHE_TTL)
      => call[c1].requests + call[c2].requests <= 1

\* C1 amended: once a call has returned through the network (caching its
\* result at time t), a call of the same operation with identical parameters
\* that starts after that return, no later than t + TTL and with no
\* clearCache() in between, issues no outbound request and returns from the
\* cache.
C1_HitAfterCompletion ==
  \A c2 \in Started, c1 \in Calls :
    (Precedes(c1, c2) /\ call[c2].startedAt - call[c1].doneAt <= CACHE_TTL)
      => /\ call[c2].requests = 0
         /\ call[c2].hit
         /\ call[c2].pc = "returned"

\* C1 witness: a search answered from the cache a second after the first,
\* identical search returned.
C1_Witness ==
  \E c1 \in Calls, c2 \in Started :
    /\ Precedes(c1, c2)
    /\ call[c2].args.op = "search"
    /\ call[c2].startedAt - call[c1].doneAt = 1000
    /\ call[c2].hit

\* C2 as stated: a call is answered from a cache entry only if the entry was
\* written by the same operation with identical parameters; what a chat call
\* gets from the cache is an answer to its own message, history and context.
C2_KeyCoversAllParameters ==
  \A c \in Started : call[c].hit => call[c].result.for = call[c].args

\* C3: a call whose matching cache entry is older than the TTL issues a fresh
\* request, whatever the entry holds; and a call that succeeds through the
\* network leaves its new result in the cache under a fresh timestamp.
C3_ExpiredEntryRefetched ==
  [][\A c \in Calls :
       /\ (/\ call[c].pc = "idle"
           /\ call'[c].pc # "idle"
           /\ call'[c].key \in DOMAIN cache
           /\ now - cache[call'[c].key].timestamp > CACHE_TTL)
            => /\ call'[c].pc = "request"
               /\ call'[c].requests = 1
               /\ ~call'[c].hit
       /\ (call[c].pc = "request" /\ call'[c].pc = "returned")
            => /\ call[c].key \in DOMAIN cache'
               /\ cache'[call[c].key] = [data |-> call'[c].result, timestamp |-> now]
               /\ call'[c].result = Normalise(call[c].args, net'[c].data)]_vars

\* C3 witness: a call started more than a TTL after the identical call before
\* it had cached its result, went to the network and replaced the entry with a
\* different result.
C3_Witness ==
  \E c1 \in Calls, c2 \in Started :
    /\ Precedes(c1, c2)
    /\ call[c2].startedAt - call[c1].doneAt > CACHE_TTL
    /\ call[c2].pc = "returned"
    /\ call[c2].requests = 1
    /\ call[c2].result # call[c1].result
    /\ cache[call[c2].key] = [data |-> call[c2].result, timestamp |-> call[c2].doneAt]

\* The classes of failure the claims speak of.
Is4xx(e) == ~e.ok /\ e.isAxios /\ e.status >= 400 /\ e.status < 500
Is5xx(e) == ~e.ok /\ e.isAxios /\ e.status >= 500
IsNoResponse(e) == ~e.ok /\ e.status = NoStatus
Retryable(e) == Is5xx(e) \/ IsNoResponse(e)

C5_ClientErrorNotRetried ==
  \A c \in Started :
    (call[c].attempt = 0 /\ Is4xx(net[c]))
      => /\ call[c].pc = "threw"
         /\ call[c].requests = 1
         /\ call[c].sleeps = << >>
         /\ call[c].thrown = handleError(net[c], ErrorContext(call[c].args))

\* C5 witness: a place lookup answered 429 on its first attempt.
C5_Witness ==
  \E c \in Calls :
    /\ call[c].pc = "threw"
    /\ call[c].args.op = "place"
    /\ net[c] = Http(429)
    /\ call[c].requests = 1

\* C6 as stated: a sendChatMessage invocation that is not answered from the
\* cache issues exactly one outbound chat request.
C6_ExactlyOneRequest ==
  \A c \in Finished :
    (call[c].args.op = "chat" /\ ~call[c].hit) => call[c].requests = 1

\* C6 amended: a sendChatMessage invocation that is not answered from the
\* cache issues exactly one outbound chat request when its first attempt
\* succeeds or fails with a 4xx, and otherwise one more request per retry, at
\* most three in all.
C6_OneRequestPerAttempt ==
  \A c \in Started :
    (call[c].args.op = "chat" /\ ~call[c].hit)
      => /\ call[c].requests >= 1
         /\ call[c].requests <= 3
         /\ call[c].requests = call[c].attempt + 1
         /\ (call[c].pc = "threw" /\ Retryable(net[c])) => call[c].requests = 3
         /\ (c \in Finished /\ call[c].sleeps = << >>)
              => call[c].requests = 1 /\ (net[c].ok \/ Is4xx(net[c]))

\* C6 witness: a chat call that returned after its third request.
C6_Witness ==
  \E c \in Calls :
    /\ call[c].args.op = "chat"
    /\ call[c].pc = "returned"
    /\ ~call[c].hit
    /\ call[c].requests = 3

\* The outbound requests of a set of invocations.
RECURSIVE TotalRequests(_)
TotalRequests(S) ==
  IF S = {} THEN 0
  ELSE LET c == CHOOSE x \in S : TRUE
       IN call[c].requests + TotalRequests(S \ {c})

\* C7 as stated: messages sent one after another with no history and no
\* context, on a cache that starts empty, every remote call succeeding: the
\* number of outbound chat requests equals the number of messages.
C7_RequestsEqualMessages ==
  (/\ Finished = Started
   /\ \A c \in Started :
        /\ \A b \in 1..(c - 1) : b \in call[c].prior
        /\ call[c].args.op = "chat"
        /\ Param(call[c].args, "conversationHistory") = "[]"
        /\ Param(call[c].args, "context") = Undefined
        /\ call[c].pc = "returned"
        /\ call[c].sleeps = << >>)
    => TotalRequests(Started) = nStarted

\* C8 as stated: a failed operation throws an Error whose message is: for a
\* remote 401 the fixed authentication text, for a 429 the fixed rate-limit
\* text, for a 5xx "Yelp API server error: " and the operation's context text,
\* and for a structured error body the text taken from that body.
C8_MessageFromBody ==
  \A c \in Calls :
    call[c].pc = "threw" =>
      LET e == net[c]
          context == ErrorContext(call[c].args)
      IN /\ e.status = 401 => call[c].thrown = "Yelp API authentication failed"
         /\ e.status = 429 => call[c].thrown = "Yelp API rate limit exceeded"
         /\ Is5xx(e) => call[c].thrown = "Yelp API server error: " \o context
         /\ (e.hasError /\ e.status \notin {401, 429} /\ ~Is5xx(e))
              => call[c].thrown = "Yelp API error: " \o e.description

\* C8 amended: as stated, except that a structured error body gives
\* "Yelp API error: " followed by the body's error description when it has
\* one, and by the operation's context text when it has none.
C8_MessageTable ==
  \A c \in Calls :
    call[c].pc = "threw" =>
      LET e == net[c]
          context == ErrorContext(call[c].args)
      IN /\ e.status = 401 => call[c].thrown = "Yelp API authentication failed"
         /\ e.status = 429 => call[c].thrown = "Yelp API rate limit exceeded"
         /\ Is5xx(e) => call[c].thrown = "Yelp API server error: " \o context
         /\ (e.hasError /\ e.status \notin {401, 429} /\ ~Is5xx(e) /\ e.description # "")
              => call[c].thrown = "Yelp API error: " \o e.description
         /\ (e.hasError /\ e.status \notin {401, 429} /\ ~Is5xx(e) /\ e.description = "")
              => call[c].thrown = "Yelp API error: " \o context

\* C8 witness: a chat call answered 404 with an error body that has no
\* description threw the prefix followed by its context text.
C8_Witness ==
  \E c \in Calls :
    /\ call[c].pc = "threw"
    /\ net[c] = HttpNoDesc(404)
    /\ call[c].thrown = "Yelp API error: Failed to send chat message"

\* C9 as stated: a failure that is none of 401, 429, 5xx or a structured error
\* body is thrown with the original failure's message.
Unclassified(e) ==
  ~e.ok /\ ~(e.isAxios /\ (e.status \in {401, 429} \/ e.status >= 500 \/ e.hasError))

C9_OriginalMessage ==
  \A c \in Calls :
    (call[c].pc = "threw" /\ Unclassified(net[c])) => call[c].thrown = net[c].message

\* C9 amended: such a failure is thrown with the operation's context text
\* ("Failed to send chat message", "Failed to get place details for <id>",
\* "Failed to search places"); the original failure's message is not kept.
C9_ContextMessage ==
  \A c \in Calls :
    (call[c].pc = "threw" /\ Unclassified(net[c]))
      => /\ call[c].thrown = ErrorContext(call[c].args)
         /\ call[c].thrown # net[c].message

\* C9 witness: a place lookup that timed out three times threw the context
\* text of the lookup.
C9_Witness ==
  \E c \in Calls :
    /\ call[c].pc = "threw"
    /\ net[c] = Timeout
    /\ call[c].thrown = "Failed to get place details for p1"

\* The calls that threw after going to the network.
Threw == {c \in Calls : call[c].pc = "threw"}

\* A call of f's key wrote the cache at or after f's start.
WrittenSince(f) ==
  \E g \in Calls :
    /\ call[g].pc = "returned"
    /\ ~call[g].hit
    /\ call[g].key = call[f].key
    /\ call[g].doneAt >= call[f].startedAt

ReturnedAfterClear == {c \in Calls : call[c].pc = "returned" /\ call[c].cleared}

\* C26: clearCache does not cancel pending cache writes: a call that missed
\* the cache before clearCache() ran and whose request succeeds afterwards
\* still stores its result, so the cache is non-empty after clearCache
\* without any new call having started, and a later identical call within
\* the TTL is answered from that entry.
C26_ClearCacheKeepsPendingWrites ==
  [][\A c \in Calls :
       /\ (call[c].pc = "request" /\ call[c].cleared /\ call'[c].pc = "returned")
            => /\ nStarted' = nStarted
               /\ call[c].key \in DOMAIN cache'
               /\ cache'[call[c].key] = [data |-> call'[c].result, timestamp |-> now]
       /\ (/\ call[c].pc = "idle"
           /\ call'[c].pc # "idle"
           /\ \E w \in ReturnedAfterClear :
                /\ ~call[w].wiped
                /\ call[w].key = call'[c].key
                /\ call[w].key \in DOMAIN cache
                /\ cache[call[w].key].timestamp = call[w].doneAt
                /\ now - call[w].doneAt <= CACHE_TTL)
            => /\ call'[c].hit
               /\ call'[c].requests = 0
               /\ call'[c].result = cache[call'[c].key].data]_vars

\* A place lookup in flight when clearCache() ran has returned and left its
\* entry in the cache, and the same lookup made a second later was
\* answered from it.
C26_Witness ==
  \E w \in ReturnedAfterClear, c \in Started :
    /\ w < c
    /\ call[w].args.op = "place"
    /\ ~call[w].hit
    /\ ~call[w].wiped
    /\ call[c].args = call[w].args
    /\ call[c].startedAt = call[w].doneAt + 1000
    /\ call[c].hit
    /\ call[c].result = call[w].result
    /\ call[c].key \in DOMAIN cache

\* C27: the TTL comparison is strict: a call that finds an entry whose age
\* is at most the TTL, exactly the TTL included, returns it with no request
\* and leaves the cache as it is; a call that finds an entry whose age is
\* above the TTL goes to the network, and its read removes the entry.
C27_StrictTtlComparison ==
  [][\A c \in Calls :
       (/\ call[c].pc = "idle"
        /\ call'[c].pc # "idle"
        /\ call'[c].key \in DOMAIN cache)
         => IF now - cache[call'[c].key].timestamp <= CACHE_TTL
              THEN /\ call'[c].hit
                   /\ call'[c].pc = "returned"
                   /\ call'[c].requests = 0
                   /\ call'[c].result = cache[call'[c].key].data
                   /\ cache' = cache
              ELSE /\ ~call'[c].hit
                   /\ call'[c].requests = 1
                   /\ call'[c].key \notin DOMAIN cache'
                   /\ \A k \in DOMAIN cache \ {call'[c].key} :
                        k \in DOMAIN cache' /\ cache'[k] = cache[k]]_vars

\* A chat call answered from an entry exactly one TTL old.
C27_Witness ==
  \E c \in Started :
    /\ call[c].hit
    /\ call[c].args.op = "chat"
    /\ call[c].key \in DOMAIN cache
    /\ call[c].startedAt - cache[call[c].key].timestamp = CACHE_TTL
    /\ call[c].requests = 0

\* The scores of a list descend: none is below the one after it.
NonIncreasing(scores) ==
  \A i \in 1..(Len(scores) - 1) : scores[i] >= scores[i + 1]

\* C22: for every user message the recommendations attached to the
\* assistant response are in non-increasing order of relevance score: those
\* sendChatMessage returns for the message, and those of the assistant
\* messages in the chat of the home page.
C22_RecommendationsByRelevance ==
  /\ \A c \in Calls :
       (call[c].pc = "returned" /\ call[c].args.op = "chat")
         => NonIncreasing([i \in 1..Len(call[c].result.recommendations) |->
                             call[c].result.recommendations[i].relevanceScore])
  /\ \A i \in 1..Len(page.messages) :
       page.messages[i].role = "assistant"
         => NonIncreasing(page.messages[i].recommendations)

(***************************************************************************)
(* Claims about the context assembler.                                     *)
(***************************************************************************)
Malformed(reply) ==
  reply.kind = "resolve" /\ ~(reply.weather = "full" /\ reply.main = "full")

\* C10 as stated: whatever the weather request ends in (network failure,
\* non-2xx response, timeout, malformed body), getCurrentContext returns the
\* derived time, the caller's location and no weather, and never throws.
C10_NoWeatherOnAnyFailure ==
  /\ ctx.pc # "threw"
  /\ (ctx.pc = "returned" /\ (ctx.reply.kind = "reject" \/ Malformed(ctx.reply)))
       => /\ ctx.result.time = getTimeContext(ctx.clock)
          /\ ctx.result.location = ctx.location
          /\ ctx.result.weather = Absent

\* C10 amended: getCurrentContext never throws because of the weather
\* request and always returns the derived time and the caller's location;
\* weather is absent after a network failure, a non-2xx response, a timeout,
\* and a body with no weather list, an empty list or no main record; a body
\* whose first weather element or main record merely lacks fields yields a
\* weather record with those fields undefined.
C10_WeatherFailureAbsorbed ==
  /\ ctx.pc # "threw"
  /\ ctx.pc = "returned"
       => /\ ctx.result.time = getTimeContext(ctx.clock)
          /\ ctx.result.location = ctx.location
          /\ (ctx.reply.kind = "reject" \/ ReadThrows(ctx.reply))
               => ctx.result.weather = Absent
          /\ (Malformed(ctx.reply) /\ ~ReadThrows(ctx.reply))
               => /\ ctx.result.weather.present
                  /\ Undefined \in {ctx.result.weather.condition,
                                    ctx.result.weather.temperature}

\* C10 witness: at 17h on a Saturday the weather request timed out and the
\* call returned the evening, the location and no weather.
C10_Witness ==
  /\ ctx.pc = "returned"
  /\ ctx.reply.error = "timeout"
  /\ ctx.clock = [hour |-> 17, weekday |-> 6]
  /\ ctx.result.time.timeOfDay = "evening"
  /\ ctx.result.time.dayOfWeek = "Saturday"
  /\ ctx.result.location = "{lat:3,lng:4,name:home}"
  /\ ctx.result.weather = Absent

(***************************************************************************)
(* The HTTP route layer.                                                   *)
(***************************************************************************)
\* The current request was dispatched to a route whose chain has requireAuth.
Guarded(req) ==
  /\ req.route # NoRoute
  /\ \E i \in 1..Len(Routes[req.route].chain) : Routes[req.route].chain[i] = "requireAuth"

\* The Authorization header is missing or does not start with 'Bearer '.
NoBearer(req) ==
  req.in.authorization = Undefined \/ ~StartsWith(req.in.authorization, "Bearer ")

ErrorShape(body) == DOMAIN body = {"error", "message", "statusCode"}

AuthenticatedTo(router) ==
  /\ http.req.pc = "done"
  /\ http.req.verdict = "session"
  /\ RouterOf(http.req.in.path) = router

TooManyShape(req) ==
  /\ req.status = 429
  /\ ErrorShape(req.reply)
  /\ req.reply.statusCode = 429

\* C12: the auth endpoints are limited to 5 requests per 15 minutes per
\* client IP: a request to POST /api/auth/verify that is the 6th or a later
\* one from its IP inside a 15-minute window is answered 429 with the body
\* {error, message, statusCode}.
C12_AuthEndpointsLimited ==
  ( /\ AuthenticatedTo("auth")
    /\ http.seen.auth[http.req.in.ip].count > authLimiter.max )
  => TooManyShape(http.req)

\* C13: every chat endpoint is limited to 10 requests per minute per client
\* IP: an authenticated request to a chat endpoint that is the 11th or a
\* later one from its IP inside one minute is answered 429 with the body
\* {error, message, statusCode}.
C13_ChatEndpointsLimited ==
  ( /\ AuthenticatedTo("chat")
    /\ http.seen.chat[http.req.in.ip].count > chatLimiter.max )
  => TooManyShape(http.req)

\* The current request was answered by errorHandler, for the error in
\* http.req.error.
AnsweredByErrorHandler == http.req.pc = "done" /\ http.req.by = "errorHandler"

\* C14: for every error that reaches errorHandler the response status is the
\* error's status code, or 500 when it has none; the body carries error,
\* message and statusCode, with statusCode equal to the status; the error
\* label is 'Internal Server Error' exactly when the status is 500 or above;
\* and for a 4xx error with a non-empty message the body message is that
\* message verbatim.
C14_ErrorResponseShape ==
  LET req == http.req
      err == req.error
  IN AnsweredByErrorHandler =>
       /\ req.status = (IF err.statusCode = NoStatus THEN 500 ELSE err.statusCode)
       /\ {"error", "message", "statusCode"} \subseteq DOMAIN req.reply
       /\ req.reply.statusCode = req.status
       /\ (req.reply.error = "Internal Server Error") <=> (req.status >= 500)
       /\ (req.status \in 400..499 /\ err.message # "") => req.reply.message = err.message

\* A handler failed with a 404 AppError and the response repeats its message.
C14_Witness ==
  /\ AnsweredByErrorHandler
  /\ http.req.error = AppError("Place not found", 404)
  /\ http.req.status = 404
  /\ http.req.reply.message = "Place not found"
  /\ http.req.reply.error = "Error"

\* C15: an error without a status code is answered 500 with a sanitized
\* message: outside development mode the body does not reproduce the
\* error's own message and is the same for every such error, whatever its
\* message.
C15_UnexpectedErrorSanitized ==
  LET req == http.req
  IN ( /\ AnsweredByErrorHandler
       /\ req.error.statusCode = NoStatus
       /\ http.nodeEnv # "development" )
     => /\ req.status = 500
        /\ req.error.message # "" => req.reply.message # req.error.message
        /\ \A other \in GenericErrors : errorHandler(other, http.nodeEnv).body = req.reply

\* C16: an authenticated GET /api/places/saved is dispatched to the
\* saved-places handler, not to the place-details handler registered for
\* GET /api/places/:placeId.
C16_SavedPlacesDispatch ==
  LET req == http.req
  IN ( /\ req.pc = "done"
       /\ req.in.method = "GET"
       /\ req.in.path = <<"api", "places", "saved">>
       /\ req.ran # NoRoute )
     => /\ Routes[req.ran].path = <<"api", "places", "saved">>
        /\ req.reply.message = "Saved places endpoint - to be implemented"

\* The request being served is a POST /api/chat/message with a body the
\* parser accepts.
ChatMessage(req) ==
  /\ req.in.method = "POST"
  /\ req.in.path = <<"api", "chat", "message">>
  /\ req.in.body # "malformed"

\* The store after one more request of the IP is counted in it.
CountedIn(store, options, ip, t) ==
  IF store[ip].count = 0 \/ t >= store[ip].resetTime
    THEN [store EXCEPT ![ip] = [count |-> 1, resetTime |-> t + options.windowMs]]
    ELSE [store EXCEPT ![ip] = [count |-> store[ip].count + 1,
                                resetTime |-> store[ip].resetTime]]

\* C28: on POST /api/chat/message the general /api limiter runs first, then
\* requireAuth, then the chat limiter: the request is counted against the
\* general quota on arrival, whatever happens to it later; a request the
\* general limiter or requireAuth rejects is not counted against the chat
\* quota; and the request is counted against the chat quota exactly when
\* requireAuth has accepted it.
C28_ChatMessageMiddlewareOrder ==
  [][LET req == http'.req
         ip == req.in.ip
         arrives == http'.served = http.served + 1
         answered == req.pc = "done" /\ (arrives \/ http.req.pc = "verifying")
     IN ChatMessage(req)
        => /\ arrives
              => http'.stores.api = CountedIn(http.stores.api, apiLimiter, ip, http.clock)
           /\ ~arrives => http'.stores.api = http.stores.api
           /\ (answered /\ req.by = "apiLimiter")
              => /\ req.status = 429
                 /\ req.verdict = "none"
                 /\ http'.stores.chat = http.stores.chat
           /\ (answered /\ req.by = "requireAuth")
              => /\ req.status = 401
                 /\ req.auth = NoAuth
                 /\ http'.stores.chat = http.stores.chat
           /\ (answered /\ req.by \in {"chatLimiter", "handler", "errorHandler"})
              => /\ req.verdict = "session"
                 /\ req.nextCalls = 1
                 /\ http'.stores.chat =
                      CountedIn(http.stores.chat, chatLimiter, ip, http.clock)
           /\ (~answered) => http'.stores.chat = http.stores.chat]_vars

\* A POST /api/chat/message without credentials: answered 401 by
\* requireAuth, counted by the general limiter and not by the chat limiter.
C28_Witness ==
  /\ ChatMessage(http.req)
  /\ http.req.pc = "done"
  /\ http.req.by = "requireAuth"
  /\ http.req.status = 401
  /\ http.stores.api[http.req.in.ip].count >= 1
  /\ http.stores.chat[http.req.in.ip].count = 0

(***************************************************************************)
(* The context extractor.                                                  *)
(***************************************************************************)
ReturnedFor(messages) == extraction.pc = "returned" /\ extraction.messages = messages

UserTurn(content) == <<[role |-> "user", content |-> content]>>

\* The text scanned by the call that has returned.
ScannedText == conversationText(extraction.messages)

HasSoloPhrase(text) ==
  \/ includes(text, "just me")
  \/ includes(text, "by myself")
  \/ includes(text, "solo")
  \/ includes(text, "just for me")

\* C17: whenever the concatenated user text contains a solo phrase ('just
\* me', 'by myself', 'solo', 'just for me') the group size is 1, also when
\* the text contains a numeric group-size pattern.
C17_SoloSuppressesPatterns ==
  (extraction.pc = "returned" /\ HasSoloPhrase(ScannedText))
  => /\ "groupSize" \in DOMAIN extraction.result
     /\ extraction.result.groupSize = 1

\* A text with a solo phrase and a pattern that would give another size.
C17_Witness ==
  /\ extraction.pc = "returned"
  /\ HasSoloPhrase(ScannedText)
  /\ ScanPatterns(ScannedText, 1).found
  /\ ScanPatterns(ScannedText, 1).size # 1
  /\ extraction.result.groupSize = 1

\* C18 as stated: for the single user turn 'Looking for a romantic dinner
\* for 2 people' the result is exactly {mood: 'romantic', groupSize: 2}, with
\* no occasion.
C18_NoOccasion ==
  ReturnedFor(UserTurn("Looking for a romantic dinner for 2 people"))
  => extraction.result = [mood |-> "romantic", groupSize |-> 2]

\* C18: for the single user turn 'Looking for a romantic dinner for 2
\* people' the result is exactly {mood: 'romantic', occasion: 'date night',
\* groupSize: 2}: the text includes the occasion keyword 'romantic dinner'.
C18_RomanticDinnerExample ==
  ReturnedFor(UserTurn("Looking for a romantic dinner for 2 people"))
  => extraction.result = [mood |-> "romantic", occasion |-> "date night", groupSize |-> 2]

C18_Witness ==
  /\ ReturnedFor(UserTurn("Looking for a romantic dinner for 2 people"))
  /\ includes(ScannedText, "romantic dinner")
  /\ extraction.result.occasion = "date night"

\* A text that includes no keyword and no solo phrase and matches no
\* pattern.
MatchesNothing(text) ==
  /\ ~FirstEntry(moodKeywords, text).found
  /\ ~FirstEntry(occasionKeywords, text).found
  /\ ~HasSoloPhrase(text)
  /\ \A k \in 1..Len(groupSizePatterns) : ~match(text, groupSizePatterns[k]).found

\* C19 as stated: 'Need a place for a group of 8' gives exactly
\* {groupSize: 8}, and a turn that matches nothing, or no turn, gives {}.
C19_GroupSizeOnly ==
  /\ ReturnedFor(UserTurn("Need a place for a group of 8"))
     => extraction.result = [groupSize |-> 8]
  /\ (extraction.pc = "returned" /\ MatchesNothing(ScannedText))
     => extraction.result = EmptyContext

\* C19: 'Need a place for a group of 8' gives exactly {occasion: 'group
\* hangout', groupSize: 8}, the text including the occasion keyword 'group';
\* a turn that matches no keyword or pattern (such as 'Hello'), or no turn
\* at all, gives the empty record.
C19_GroupOfEightExample ==
  /\ ReturnedFor(UserTurn("Need a place for a group of 8"))
     => extraction.result = [occasion |-> "group hangout", groupSize |-> 8]
  /\ (extraction.pc = "returned" /\ MatchesNothing(ScannedText))
     => extraction.result = EmptyContext
  /\ ReturnedFor(UserTurn("Hello")) => extraction.result = EmptyContext
  /\ ReturnedFor(<<>>) => extraction.result = EmptyContext

C19_Witness ==
  /\ ReturnedFor(UserTurn("Need a place for a group of 8"))
  /\ "mood" \notin DOMAIN extraction.result
  /\ extraction.result.occasion = "group hangout"
  /\ extraction.result.groupSize = 8

\* The six patterns in the order the claim lists them.
PatternTable ==
  << <<"#", "people">>, <<"group", "of", "#">>, <<"party", "of", "#">>,
     <<"#", "of", "us">>, <<"for", "#">>, <<"just", "for", "#">> >>

\* The pattern has a match whose captured integer is in 1..100.
InRange(text, tokens) ==
  /\ match(text, tokens).found
  /\ parseInt(match(text, tokens).capture) \in 1..100

\* C20: without a solo phrase the group size is the integer captured by the
\* first pattern, in table order, that has a match with a captured integer
\* in 1..100; table order, not position in the text, decides, no later
\* pattern counts once one has matched so, and the size is unset when none
\* does.
C20_FirstPatternInTableOrder ==
  LET text == ScannedText
      winners == {k \in 1..Len(PatternTable) : InRange(text, PatternTable[k])}
      first == CHOOSE k \in winners : \A j \in winners : k <= j
  IN (extraction.pc = "returned" /\ ~HasSoloPhrase(text))
     => IF winners = {}
          THEN "groupSize" \notin DOMAIN extraction.result
          ELSE /\ "groupSize" \in DOMAIN extraction.result
               /\ extraction.result.groupSize = parseInt(match(text, PatternTable[first]).capture)

\* '5 of us' comes first in the text, '<n> people' first in the table.
C20_Witness ==
  /\ ReturnedFor(UserTurn("5 of us, maybe 3 people"))
  /\ InRange(ScannedText, PatternTable[1])
  /\ InRange(ScannedText, PatternTable[4])
  /\ extraction.result.groupSize = 3

\* The user turns of a conversation, in order.
UserTurnsOf(messages) == SelectSeq(messages, LAMBDA msg : msg.role = "user")

\* C21: the result depends only on the turns with role 'user', taken in
\* order: it is the result for the conversation made of those turns alone,
\* so two conversations with the same sequence of user turns, whatever
\* their assistant turns, yield the same mood, occasion and group size.
C21_OnlyUserTurnsCount ==
  extraction.pc = "returned"
  => extraction.result = extractContextFromConversation(UserTurnsOf(extraction.messages))

\* An assistant turn that names a mood, an occasion and a group size, next
\* to a user turn that names none: the result is empty.
C21_Witness ==
  /\ extraction.pc = "returned"
  /\ Len(extraction.messages) = 2
  /\ extraction.messages[1] = [role |-> "user", content |-> "Hello"]
  /\ extraction.messages[2] =
       [role |-> "assistant", content |-> "Looking for a romantic dinner for 2 people"]
  /\ extraction.result = EmptyContext

\* The positions at which an occurrence of the pattern starts, and the
\* integer the occurrence at a position captures.
Occurrences(text, tokens) ==
  {i \in 1..Len(text) : Boundary(text, i) /\ MatchFrom(text, tokens, 1, i, "").found}

CaptureAt(text, tokens, i) == parseInt(MatchFrom(text, tokens, 1, i, "").capture)

FirstOccurrence(text, tokens) ==
  CHOOSE i \in Occurrences(text, tokens) : \A j \in Occurrences(text, tokens) : i <= j

\* The pattern occurs and its first occurrence captures an integer in 1..100.
FirstInRange(text, tokens) ==
  /\ Occurrences(text, tokens) # {}
  /\ CaptureAt(text, tokens, FirstOccurrence(text, tokens)) \in 1..100

\* The pattern's first occurrence captures an integer outside 1..100 and a
\* later occurrence of it captures one inside.
OnlyLaterInRange(text, tokens) ==
  /\ Occurrences(text, tokens) # {}
  /\ ~FirstInRange(text, tokens)
  /\ \E i \in Occurrences(text, tokens) : CaptureAt(text, tokens, i) \in 1..100

RowsOf(rows, userId, placeId) ==
  {row \in rows : row.userId = userId /\ row.placeId = placeId}

SessionIds(rows) == {row.id : row \in rows}

\* C24: a session row created without an explicit expiry has expiresAt equal
\* to its creation time plus 24 hours; no update changes a row's expiresAt;
\* a row is never purged before its expiresAt; and a row whose expiresAt has
\* passed is eventually purged, whatever its lastActivity.
C24_SessionTimeToLive ==
  /\ [](\A row \in db.sessions :
          ~row.explicit => row.expiresAt = row.createdAt + 24 * 60 * 60 * 1000)
  /\ [][\A row \in db.sessions :
         IF row.id \in SessionIds(db'.sessions)
           THEN \A after \in db'.sessions : after.id = row.id => after.expiresAt = row.expiresAt
           ELSE row.expiresAt <= db.clock]_vars
  /\ \A id \in 1..MaxSessions :
       (\E row \in db.sessions : row.id = id /\ row.expiresAt < db.clock)
         ~> (id \notin SessionIds(db.sessions))

\* The first session, created without an expiry, has been purged; the
\* second, created a day later without an expiry and active since, is kept.
C24_Witness ==
  /\ db.created = 2
  /\ SessionIds(db.sessions) = {2}
  /\ \E row \in db.sessions :
       /\ ~row.explicit
       /\ row.createdAt = 24 * 60 * 60 * 1000
       /\ row.lastActivity > row.createdAt
       /\ row.expiresAt = row.createdAt + 24 * 60 * 60 * 1000
       /\ row.expiresAt > db.clock

(***************************************************************************)
(* Claims about the home page.                                             *)
(***************************************************************************)
\* C29: with the maps SDK loaded and the props of Map unchanged (HomePage
\* has not rendered again, no position has arrived), the map instance is
\* created exactly once: reporting readiness through onMapReady, which
\* stores the instance in Map's state and renders Map again, does not make
\* MapContainer's initialisation effect run again and construct another
\* instance.
C29_MapCreatedOnce ==
  (page.sends = 0 /\ page.userLocation = "null")
  => /\ page.created <= 1
     /\ page.map \in {0, 1}

====
